---------------------------- MODULE Spec2Model ----------------------------
(***************************************************************************)
(* Spotless-Film: the editing session of SpotlessFilmModern and its        *)
(* DustRemovalState (src/src/spotless_film_modern.py,                      *)
(* src/src/dust_removal_state.py, src/src/image_processing.py).            *)
(*                                                                         *)
(* Masks are rasters [w, h, px]; px is a row-major tuple of 0/255 values.  *)
(* Probabilities and thresholds are in thousandths (0.05 is 50).           *)
(* Low-resolution points are exact rationals [xn/xd, yn/yd].               *)
(***************************************************************************)
EXTENDS Integers, Sequences, FiniteSets, TLC

(***************************************************************************)
(* Bounds of the model                                                     *)
(***************************************************************************)
\* number of different network outputs the detection worker may return
NumPredictions == 1
\* longest undo history at which the full session model still starts a stroke
MaxDepth == 2
\* number of worker threads that may be alive at once
MaxWorkers == 2

(***************************************************************************)
(* Program constants                                                       *)
(***************************************************************************)
max_history_size == 20
max_drawing_resolution == 1024
\* low_res_scale = 0.25 = 1 / LowResScaleDen
LowResScaleDen == 4
\* ViewState.brush_size
brush_size == 15
\* ProcessingState.threshold = 0.05
DefaultThreshold == 50
\* display_single_view: margin = 40
margin == 40
\* canvas.winfo_width() / winfo_height() of the Tk canvas
CanvasW == 100
CanvasH == 60
\* DustRemovalApp: window and stride of the tiled detection
patch_size == 1024
stride == 512

Max(a, b) == IF a >= b THEN a ELSE b
Min(a, b) == IF a <= b THEN a ELSE b

(***************************************************************************)
(* Images, masks, probability maps                                         *)
(***************************************************************************)
NoImage == "none"
Images == {"A", "B"}
\* "L" is an image larger than the canvas; it is only viewed, never detected
ImageW(img) == IF img = "A" THEN 8 ELSE IF img = "L" THEN 240 ELSE 4
ImageH(img) == IF img = "L" THEN 80 ELSE 4

NoMask == [w |-> 0, h |-> 0, px |-> << >>]
Pix(m, x, y) == m.px[y * m.w + x + 1]
MakeMask(W, H, f(_, _)) ==
    [w |-> W, h |-> H,
     px |-> [i \in 1..(W * H) |-> f((i - 1) % W, (i - 1) \div W)]]

\* PIL Image.resize(size, Image.NEAREST): the source pixel of output pixel x is
\* floor((x + 0.5) * w / W)
ResizeNearest(m, W, H) ==
    LET src(x, y) == Pix(m, ((2 * x + 1) * m.w) \div (2 * W),
                            ((2 * y + 1) * m.h) \div (2 * H))
    IN MakeMask(W, H, src)

\* the network output for image img, the k-th possible one, at pixel (x, y)
Prob(img, k, x, y) ==
    LET W == ImageW(img)
        H == ImageH(img)
    IN IF (x = (4 * k - 2) % W /\ y = 2 % H) \/ (x = (3 * k + 2) % W /\ y = 1)
       THEN 900
       ELSE IF x = (4 * k + 4) % W /\ y = 2 % H THEN 100 ELSE 0

NoPrediction == [img |-> NoImage, k |-> 0]
Thresholds == {DefaultThreshold, 500}

\* variant: prediction >= threshold
create_binary_mask_inclusive(prediction, threshold, original_size) ==
    LET binary(x, y) ==
            IF Prob(prediction.img, prediction.k, x, y) >= threshold
            THEN 255 ELSE 0
        mask_image == MakeMask(ImageW(prediction.img), ImageH(prediction.img),
                               binary)
    IN IF <<mask_image.w, mask_image.h>> # original_size
       THEN ResizeNearest(mask_image, original_size[1], original_size[2])
       ELSE mask_image

\* variant: (prediction > threshold).astype(np.uint8) without the * 255
create_binary_mask_unscaled(prediction, threshold, original_size) ==
    LET binary(x, y) ==
            IF Prob(prediction.img, prediction.k, x, y) > threshold
            THEN 1 ELSE 0
        mask_image == MakeMask(ImageW(prediction.img), ImageH(prediction.img),
                               binary)
    IN IF <<mask_image.w, mask_image.h>> # original_size
       THEN ResizeNearest(mask_image, original_size[1], original_size[2])
       ELSE mask_image

create_binary_mask(prediction, threshold, original_size) ==
    LET binary(x, y) ==
            IF Prob(prediction.img, prediction.k, x, y) > threshold
            THEN 255 ELSE 0
        mask_image == MakeMask(ImageW(prediction.img), ImageH(prediction.img),
                               binary)
    IN IF <<mask_image.w, mask_image.h>> # original_size
       THEN ResizeNearest(mask_image, original_size[1], original_size[2])
       ELSE mask_image

(***************************************************************************)
(* Brush tools                                                             *)
(***************************************************************************)
NoPoint == [xn |-> -1, xd |-> 1, yn |-> -1, yd |-> 1]

\* rationals are kept in lowest terms
RECURSIVE GCD(_, _)
GCD(a, b) == IF b = 0 THEN a ELSE GCD(b, a % b)
Abs(a) == IF a < 0 THEN -a ELSE a
Point(xn, xd, yn, yd) ==
    LET gx == GCD(Abs(xn), xd)
        gy == GCD(Abs(yn), yd)
    IN [xn |-> xn \div gx, xd |-> xd \div gx, yn |-> yn \div gy, yd |-> yd \div gy]

\* a rational n / d in lowest terms, d > 0
Rat(n, d) ==
    LET g == GCD(Abs(n), Abs(d))
        sign == IF d < 0 THEN -1 ELSE 1
    IN [n |-> (sign * n) \div g, d |-> (sign * d) \div g]
RatMul(a, b) == Rat(a.n * b.n, a.d * b.d)
RatDiv(a, b) == Rat(a.n * b.d, a.d * b.n)
RatAdd(a, b) == Rat(a.n * b.d + b.n * a.d, a.d * b.d)
RatSub(a, b) == Rat(a.n * b.d - b.n * a.d, a.d * b.d)
RatLess(a, b) == a.n * b.d < b.n * a.d
RatMin(a, b) == IF RatLess(b, a) THEN b ELSE a
RatMax(a, b) == IF RatLess(a, b) THEN b ELSE a
\* int(): truncation toward zero
RatInt(a) == IF a.n >= 0 THEN a.n \div a.d ELSE -((-a.n) \div a.d)

apply_circular_brush(mask, center, radius, is_erasing) ==
    LET cx == center.xn \div center.xd
        cy == center.yn \div center.yd
        stamped(x, y) ==
            IF (x - cx) * (x - cx) + (y - cy) * (y - cy) <= radius * radius
            THEN (IF is_erasing THEN 0 ELSE 255)
            ELSE Pix(mask, x, y)
    IN IF cx < 0 \/ cx >= mask.w \/ cy < 0 \/ cy >= mask.h
       THEN mask
       ELSE MakeMask(mask.w, mask.h, stamped)

\* int(distance / spacing), spacing = max(1.0, radius * 0.25), for the
\* distance whose square is d2n / d2d
StepCount(d2n, d2d, radius) ==
    LET sp == Max(4, radius)
        fits(k) == k * k * sp * sp * d2d <= 16 * d2n
    IN CHOOSE k \in 0..(4 * (d2n \div d2d) + 4) : fits(k) /\ ~fits(k + 1)

RECURSIVE StrokeLoop(_, _, _, _, _, _, _)
StrokeLoop(current_mask, start_point, end_point, radius, is_erasing, i, steps) ==
    IF i > steps
    THEN current_mask
    ELSE LET dxn == end_point.xn * start_point.xd - start_point.xn * end_point.xd
             dxd == end_point.xd * start_point.xd
             dyn == end_point.yn * start_point.yd - start_point.yn * end_point.yd
             dyd == end_point.yd * start_point.yd
             \* start_point + (i / steps) * (dx, dy)
             interp_point ==
                 Point(start_point.xn * steps * dxd + i * dxn * start_point.xd,
                       start_point.xd * steps * dxd,
                       start_point.yn * steps * dyd + i * dyn * start_point.yd,
                       start_point.yd * steps * dyd)
         IN StrokeLoop(apply_circular_brush(current_mask, interp_point, radius,
                                            is_erasing),
                       start_point, end_point, radius, is_erasing, i + 1, steps)

\* variant: stamps at the two end points only
interpolated_stroke_endpoints_only(mask, start_point, end_point, radius, is_erasing) ==
    apply_circular_brush(apply_circular_brush(mask, start_point, radius,
                                              is_erasing),
                         end_point, radius, is_erasing)

interpolated_stroke(mask, start_point, end_point, radius, is_erasing) ==
    LET dxn == end_point.xn * start_point.xd - start_point.xn * end_point.xd
        dxd == end_point.xd * start_point.xd
        dyn == end_point.yn * start_point.yd - start_point.yn * end_point.yd
        dyd == end_point.yd * start_point.yd
        d2n == dxn * dxn * dyd * dyd + dyn * dyn * dxd * dxd
        d2d == dxd * dxd * dyd * dyd
        steps == Max(1, StepCount(d2n, d2d, radius))
    IN IF d2n < d2d
       THEN apply_circular_brush(mask, end_point, radius, is_erasing)
       ELSE StrokeLoop(mask, start_point, end_point, radius, is_erasing, 0, steps)

(***************************************************************************)
(* State                                                                   *)
(***************************************************************************)
VARIABLES
    selected_image,       \* DustRemovalState.selected_image (image id or NoImage)
    processed_image,      \* image the stored removal result was computed from
    dust_mask,            \* full-resolution mask or NoMask
    raw_prediction_mask,  \* probability map [img, k] or NoPrediction
    low_res_mask,         \* low-resolution working mask or NoMask
    unet_model,           \* TRUE once the segmentation model is loaded
    tool_mode,            \* view_state.tool_mode: "none", "brush", "eraser"
    is_detecting,         \* processing_state.is_detecting
    is_removing,          \* processing_state.is_removing
    threshold,            \* processing_state.threshold, in thousandths
    mask_history,         \* undo history, oldest first
    is_dragging,          \* a stroke is active
    last_brush_point,     \* low-resolution point or NoPoint
    last_eraser_point,
    error_message,        \* operation named by the last error, or "none"
    showing_error,
    zoom_scale,           \* view_state.zoom_scale, a rational [n, d]
    drag_offset,          \* view_state.drag_offset, a pair of rationals
    mouse_down,           \* button 1 is held on the canvas
    workers,              \* live background tasks, in start order
    op,                   \* the handler or worker step that produced this state
    ghost                 \* history variables of the current stroke and session

prog_vars == <<selected_image, processed_image, dust_mask, raw_prediction_mask,
               low_res_mask, unet_model, tool_mode, is_detecting, is_removing,
               threshold, mask_history, is_dragging, last_brush_point,
               last_eraser_point, error_message, showing_error, zoom_scale,
               drag_offset>>
vars == <<prog_vars, mouse_down, workers, op, ghost>>

\* the state object the methods below read and return
Self ==
    [selected_image |-> selected_image, processed_image |-> processed_image,
     dust_mask |-> dust_mask, raw_prediction_mask |-> raw_prediction_mask,
     low_res_mask |-> low_res_mask, unet_model |-> unet_model,
     tool_mode |-> tool_mode, is_detecting |-> is_detecting,
     is_removing |-> is_removing, threshold |-> threshold,
     mask_history |-> mask_history, is_dragging |-> is_dragging,
     last_brush_point |-> last_brush_point,
     last_eraser_point |-> last_eraser_point,
     error_message |-> error_message, showing_error |-> showing_error,
     zoom_scale |-> zoom_scale, drag_offset |-> drag_offset,
     g |-> ghost]

Commit(s) ==
    /\ selected_image' = s.selected_image
    /\ processed_image' = s.processed_image
    /\ dust_mask' = s.dust_mask
    /\ raw_prediction_mask' = s.raw_prediction_mask
    /\ low_res_mask' = s.low_res_mask
    /\ unet_model' = s.unet_model
    /\ tool_mode' = s.tool_mode
    /\ is_detecting' = s.is_detecting
    /\ is_removing' = s.is_removing
    /\ threshold' = s.threshold
    /\ mask_history' = s.mask_history
    /\ is_dragging' = s.is_dragging
    /\ last_brush_point' = s.last_brush_point
    /\ last_eraser_point' = s.last_eraser_point
    /\ error_message' = s.error_message
    /\ showing_error' = s.showing_error
    /\ zoom_scale' = s.zoom_scale
    /\ drag_offset' = s.drag_offset
    /\ ghost' = s.g

\* the centres interpolated_stroke stamps, in order: start + (i / steps) * d
\* for i = 0..steps, or the end point alone for a segment shorter than 1.0
interp_points(start_point, end_point, radius) ==
    LET dxn == end_point.xn * start_point.xd - start_point.xn * end_point.xd
        dxd == end_point.xd * start_point.xd
        dyn == end_point.yn * start_point.yd - start_point.yn * end_point.yd
        dyd == end_point.yd * start_point.yd
        d2n == dxn * dxn * dyd * dyd + dyn * dyn * dxd * dxd
        d2d == dxd * dxd * dyd * dyd
        steps == Max(1, StepCount(d2n, d2d, radius))
    IN IF d2n < d2d
       THEN <<end_point>>
       ELSE [k \in 1..(steps + 1) |->
                Point(start_point.xn * steps * dxd
                          + (k - 1) * dxn * start_point.xd,
                      start_point.xd * steps * dxd,
                      start_point.yn * steps * dyd
                          + (k - 1) * dyn * start_point.yd,
                      start_point.yd * steps * dyd)]

(***************************************************************************)
(* History variables (not program state).                                  *)
(*   stroke_pushes   snapshots pushed by start_brush_stroke since the      *)
(*                   stroke became active (counted up to 2)                *)
(*   session_pushes  snapshots pushed by start_brush_stroke since the last *)
(*                   mouse press (counted up to 2)                         *)
(*   session_points  brush/eraser point handlers run since the last mouse  *)
(*                   press (counted up to 2)                               *)
(*   pre_stroke      the full-resolution mask held just before the         *)
(*                   start_brush_stroke call that activated the stroke     *)
(*   clean           only point applications happened since that call      *)
(*   zoom_steps      zoom and pan events handled so far                    *)
(*   wheel_cursor    canvas position of the last mouse wheel event         *)
(*   stroke_radius   radius of the last stroke segment applied on its own  *)
(* The session counters are kept until the first event after the release.  *)
(***************************************************************************)
Sat(n) == Min(n + 1, 2)
GhostInit ==
    [stroke_pushes |-> 0, session_pushes |-> 0, session_points |-> 0,
     pre_stroke |-> NoMask, clean |-> FALSE,
     zoom_steps |-> 0, wheel_cursor |-> <<0, 0>>, stroke_radius |-> 0]
NotClean(s) == [s EXCEPT !.g.clean = FALSE, !.g.pre_stroke = NoMask]
SessionOver(s) == [s EXCEPT !.g.session_pushes = 0, !.g.session_points = 0]
StrokeOver(s) == [s EXCEPT !.g.stroke_pushes = 0]

(***************************************************************************)
(* DustRemovalState                                                        *)
(***************************************************************************)
\* variant: a removal in progress does not block detection
can_detect_dust_during_removal(s) ==
    /\ s.selected_image # NoImage
    /\ s.unet_model
    /\ ~s.is_detecting

can_detect_dust(s) ==
    /\ s.selected_image # NoImage
    /\ s.unet_model
    /\ ~s.is_detecting
    /\ ~s.is_removing

\* variant: a removal may start without a mask
can_remove_dust_without_mask(s) ==
    /\ ~s.is_detecting
    /\ ~s.is_removing

can_remove_dust(s) ==
    /\ s.dust_mask # NoMask
    /\ ~s.is_detecting
    /\ ~s.is_removing

can_undo(s) == Len(s.mask_history) > 0

clear_mask_history(s) ==
    StrokeOver([s EXCEPT !.mask_history = << >>, !.is_dragging = FALSE])

\* target_scale = min(low_res_scale, max_drawing_resolution / max_dimension);
\* int(dimension * target_scale)
LowResDim(dimension, max_dimension) ==
    IF max_dimension <= LowResScaleDen * max_drawing_resolution
    THEN dimension \div LowResScaleDen
    ELSE (dimension * max_drawing_resolution) \div max_dimension

create_low_res_mask(s) ==
    IF s.dust_mask = NoMask
    THEN [s EXCEPT !.low_res_mask = NoMask]
    ELSE LET max_dimension == Max(s.dust_mask.w, s.dust_mask.h)
         IN [s EXCEPT !.low_res_mask =
                 ResizeNearest(s.dust_mask,
                               LowResDim(s.dust_mask.w, max_dimension),
                               LowResDim(s.dust_mask.h, max_dimension))]

get_low_res_mask(s) ==
    IF s.low_res_mask = NoMask THEN create_low_res_mask(s) ELSE s

MinZoom == Rat(1, 1)
MaxZoom == Rat(5, 1)
\* the button step 1.5 and the wheel step 1.10
ZoomButtonStep == Rat(3, 2)
ZoomWheelStep == Rat(11, 10)

reset_zoom(s) ==
    [s EXCEPT !.zoom_scale = Rat(1, 1),
              !.drag_offset = <<Rat(0, 1), Rat(0, 1)>>]

\* variant: no upper clamp
zoom_in_unclamped(s) ==
    [s EXCEPT !.zoom_scale = RatMul(s.zoom_scale, ZoomButtonStep)]

zoom_in(s) ==
    [s EXCEPT !.zoom_scale = RatMin(RatMul(s.zoom_scale, ZoomButtonStep),
                                    MaxZoom)]

zoom_out(s) ==
    LET s1 == [s EXCEPT !.zoom_scale =
                   RatMax(RatDiv(s.zoom_scale, ZoomButtonStep), MinZoom)]
    IN IF s1.zoom_scale = Rat(1, 1)
       THEN [s1 EXCEPT !.drag_offset = <<Rat(0, 1), Rat(0, 1)>>]
       ELSE s1

reset_processing(s) ==
    [clear_mask_history(reset_zoom([s EXCEPT !.processed_image = NoImage,
                                             !.dust_mask = NoMask,
                                             !.raw_prediction_mask = NoPrediction]))
     EXCEPT !.low_res_mask = NoMask]

set_tool_mode(s, mode) == [s EXCEPT !.tool_mode = mode]

show_error(s, message) ==
    [s EXCEPT !.error_message = message, !.showing_error = TRUE]

\* variant: mask_history.pop(), the newest snapshot is dropped on overflow
save_mask_to_history_drop_newest(s) ==
    IF s.dust_mask = NoMask
    THEN s
    ELSE LET appended == Append(s.mask_history, s.dust_mask)
         IN [s EXCEPT !.mask_history =
                 IF Len(appended) > max_history_size
                 THEN SubSeq(appended, 1, Len(appended) - 1) ELSE appended]

save_mask_to_history(s) ==
    IF s.dust_mask = NoMask
    THEN s
    ELSE LET appended == Append(s.mask_history, s.dust_mask)
         IN [s EXCEPT !.mask_history =
                 IF Len(appended) > max_history_size
                 THEN Tail(appended) ELSE appended]

sync_low_res_to_full_res(s) ==
    IF s.low_res_mask = NoMask \/ s.dust_mask = NoMask
    THEN s
    ELSE [s EXCEPT !.dust_mask =
              ResizeNearest(s.low_res_mask, s.dust_mask.w, s.dust_mask.h)]

\* variant: no check of is_dragging, a snapshot for every point
start_brush_stroke_every_point(s) ==
    [save_mask_to_history(s) EXCEPT
         !.is_dragging = TRUE,
         !.g.stroke_pushes = Sat(@), !.g.session_pushes = Sat(@),
         !.g.pre_stroke = s.dust_mask, !.g.clean = TRUE]

\* variant: the low-resolution mask is synchronised into the full-resolution
\* mask before the snapshot is taken
start_brush_stroke_synced(s) ==
    IF ~s.is_dragging
    THEN [save_mask_to_history(sync_low_res_to_full_res(s)) EXCEPT
              !.is_dragging = TRUE,
              !.g.stroke_pushes = Sat(@), !.g.session_pushes = Sat(@),
              !.g.pre_stroke = s.dust_mask, !.g.clean = TRUE]
    ELSE s

start_brush_stroke(s) ==
    IF ~s.is_dragging
    THEN [save_mask_to_history(s) EXCEPT
              !.is_dragging = TRUE,
              !.g.stroke_pushes = Sat(@), !.g.session_pushes = Sat(@),
              !.g.pre_stroke = s.dust_mask, !.g.clean = TRUE]
    ELSE s

\* variant: the stroke ends without sync_low_res_to_full_res
end_brush_stroke_no_sync(s) ==
    StrokeOver([s EXCEPT !.is_dragging = FALSE, !.last_brush_point = NoPoint,
                         !.last_eraser_point = NoPoint])

end_brush_stroke(s) ==
    StrokeOver(sync_low_res_to_full_res(
        [s EXCEPT !.is_dragging = FALSE, !.last_brush_point = NoPoint,
                  !.last_eraser_point = NoPoint]))

\* variant: mask_history.pop(0), the oldest snapshot
undo_last_mask_change_oldest(s) ==
    IF s.mask_history = << >>
    THEN s
    ELSE create_low_res_mask(
             [s EXCEPT !.dust_mask = s.mask_history[1],
                       !.mask_history = Tail(s.mask_history)])

undo_last_mask_change(s) ==
    IF s.mask_history = << >>
    THEN s
    ELSE create_low_res_mask(
             [s EXCEPT !.dust_mask = s.mask_history[Len(s.mask_history)],
                       !.mask_history = SubSeq(s.mask_history, 1,
                                               Len(s.mask_history) - 1)])

\* variant: only the low-resolution mask is replaced
update_low_res_mask_low_only(s, new_low_res_mask) ==
    [s EXCEPT !.low_res_mask = new_low_res_mask]

update_low_res_mask(s, new_low_res_mask) ==
    IF s.dust_mask # NoMask
    THEN [s EXCEPT !.low_res_mask = new_low_res_mask,
                   !.dust_mask = ResizeNearest(new_low_res_mask,
                                               s.dust_mask.w, s.dust_mask.h)]
    ELSE [s EXCEPT !.low_res_mask = new_low_res_mask]

(***************************************************************************)
(* SpotlessFilmModern: display geometry and brush handlers                 *)
(***************************************************************************)
\* display_single_view at zoom 1.0 and pan (0, 0): (left, top, disp_w, disp_h)
image_item_bounds(img) ==
    LET base_w == CanvasW - margin
        base_h == CanvasH - margin
        wide == ImageW(img) * base_h > base_w * ImageH(img)
        fitted_w == IF wide THEN base_w ELSE (base_h * ImageW(img)) \div ImageH(img)
        fitted_h == IF wide THEN (base_w * ImageH(img)) \div ImageW(img) ELSE base_h
        disp_w == Max(1, fitted_w)
        disp_h == Max(1, fitted_h)
    IN <<CanvasW \div 2 - disp_w \div 2, CanvasH \div 2 - disp_h \div 2,
         disp_w, disp_h>>

convert_to_low_res_coordinates(s, point, low_res_size) ==
    IF s.selected_image = NoImage
    THEN NoPoint
    ELSE LET b == image_item_bounds(s.selected_image)
             left == b[1]
             top == b[2]
             disp_w == b[3]
             disp_h == b[4]
             \* low_res_x = (canvas_x - left) / disp_w * orig_w * (lw / orig_w)
             p == Point((point[1] - left) * low_res_size[1], disp_w,
                        (point[2] - top) * low_res_size[2], disp_h)
         IN IF \/ point[1] < left \/ point[1] > left + disp_w
               \/ point[2] < top \/ point[2] > top + disp_h
            THEN NoPoint
            ELSE IF \/ p.xn < 0 \/ p.xn >= low_res_size[1] * p.xd
                    \/ p.yn < 0 \/ p.yn >= low_res_size[2] * p.yd
                 THEN NoPoint
                 ELSE p

\* apply_eraser_at_point (is_erasing) and apply_brush_at_point (~is_erasing)
apply_tool_at_point(s, point, is_erasing) ==
    IF s.dust_mask = NoMask
    THEN s
    ELSE LET s1 == get_low_res_mask(start_brush_stroke(s))
             low == s1.low_res_mask
             low_res_point ==
                 convert_to_low_res_coordinates(s1, point, <<low.w, low.h>>)
             brush_radius ==
                 Max(1, (brush_size * Min(low.w, low.h))
                            \div Min(CanvasW, CanvasH))
             last == IF is_erasing THEN s1.last_eraser_point
                     ELSE s1.last_brush_point
             updated_mask ==
                 IF last # NoPoint
                 THEN interpolated_stroke(low, last, low_res_point,
                                          brush_radius, is_erasing)
                 ELSE apply_circular_brush(low, low_res_point, brush_radius,
                                           is_erasing)
             s2 == IF is_erasing
                   THEN [s1 EXCEPT !.last_eraser_point = low_res_point]
                   ELSE [s1 EXCEPT !.last_brush_point = low_res_point]
         IN IF low = NoMask \/ low_res_point = NoPoint
            THEN s1
            ELSE update_low_res_mask(s2, updated_mask)

\* bookkeeping of the history variables for an event that is not a point
Other(s) == IF mouse_down THEN NotClean(s) ELSE SessionOver(NotClean(s))

\* the tool branch shared by on_canvas_click and on_canvas_drag
canvas_tool_event(s, point) ==
    IF s.tool_mode = "eraser" /\ s.dust_mask # NoMask
    THEN [apply_tool_at_point(s, point, TRUE)
          EXCEPT !.g.session_points = Sat(@)]
    ELSE IF s.tool_mode = "brush" /\ s.dust_mask # NoMask
         THEN [apply_tool_at_point(s, point, FALSE)
               EXCEPT !.g.session_points = Sat(@)]
         ELSE s

\* the event would start a new stroke
StartsStroke(s) ==
    s.tool_mode \in {"brush", "eraser"} /\ s.dust_mask # NoMask /\ ~s.is_dragging

on_canvas_click(point, depth) ==
    /\ ~mouse_down
    /\ StartsStroke(Self) => Len(mask_history) < depth
    /\ Commit(canvas_tool_event(SessionOver(Self), point))
    /\ mouse_down' = TRUE
    /\ op' = "on_canvas_click"
    /\ UNCHANGED workers

on_canvas_drag(point, depth) ==
    /\ mouse_down
    /\ StartsStroke(Self) => Len(mask_history) < depth
    /\ Commit(canvas_tool_event(Self, point))
    /\ op' = "on_canvas_drag"
    /\ UNCHANGED <<mouse_down, workers>>

on_canvas_release ==
    /\ mouse_down
    /\ Commit(NotClean(IF tool_mode \in {"brush", "eraser"}
                       THEN end_brush_stroke(Self) ELSE Self))
    /\ mouse_down' = FALSE
    /\ op' = "on_canvas_release"
    /\ UNCHANGED workers

toggle_brush_tool ==
    /\ Commit(Other(set_tool_mode(Self, IF tool_mode = "brush"
                                           THEN "none" ELSE "brush")))
    /\ op' = "toggle_brush_tool"
    /\ UNCHANGED <<mouse_down, workers>>

toggle_eraser_tool ==
    /\ Commit(Other(set_tool_mode(Self, IF tool_mode = "eraser"
                                           THEN "none" ELSE "eraser")))
    /\ op' = "toggle_eraser_tool"
    /\ UNCHANGED <<mouse_down, workers>>

\* the history variables after an undo: the stroke is no longer clean, and
\* pre_stroke is kept until the next event
Undone(s) ==
    LET s1 == [s EXCEPT !.g.clean = FALSE]
    IN IF mouse_down THEN s1 ELSE SessionOver(s1)

undo_mask_change ==
    /\ Commit(Undone(IF can_undo(Self)
                        THEN undo_last_mask_change(Self) ELSE Self))
    /\ op' = "undo_mask_change"
    /\ UNCHANGED <<mouse_down, workers>>

\* apply_brush_at_point from its call of interpolated_stroke on: a segment
\* from the last brush point to low_res_point, drawn on the low-resolution mask
apply_stroke_segment(low_res_point, brush_radius) ==
    /\ last_brush_point # NoPoint
    /\ ghost.stroke_radius = 0
    /\ LET updated_mask ==
               interpolated_stroke(low_res_mask, last_brush_point,
                                   low_res_point, brush_radius, FALSE)
           s2 == [Self EXCEPT !.last_brush_point = low_res_point,
                              !.g.stroke_radius = brush_radius]
       IN Commit(update_low_res_mask(s2, updated_mask))
    /\ op' = "interpolated_stroke"
    /\ UNCHANGED <<mouse_down, workers>>

(***************************************************************************)
(* SpotlessFilmModern: zoom and pan                                        *)
(***************************************************************************)
\* display_single_view: image_item_bounds (left, top, disp_w, disp_h) for a
\* zoom scale and a pan offset
display_single_view(img, zoom, offset) ==
    LET base_w == CanvasW - margin
        base_h == CanvasH - margin
        wide == ImageW(img) * base_h > base_w * ImageH(img)
        fitted_w == IF wide THEN base_w ELSE (base_h * ImageW(img)) \div ImageH(img)
        fitted_h == IF wide THEN (base_w * ImageH(img)) \div ImageW(img) ELSE base_h
        z == RatMax(Rat(1, 1), zoom)
        disp_w == Max(1, RatInt(RatMul(Rat(fitted_w, 1), z)))
        disp_h == Max(1, RatInt(RatMul(Rat(fitted_h, 1), z)))
        center_x == CanvasW \div 2 + RatInt(offset[1])
        center_y == CanvasH \div 2 + RatInt(offset[2])
    IN <<center_x - disp_w \div 2, center_y - disp_h \div 2, disp_w, disp_h>>

ZoomStep(s) == [s EXCEPT !.g.zoom_steps = @ + 1]

zoom_in_btn(steps) ==
    /\ ghost.zoom_steps < steps
    /\ Commit(ZoomStep(zoom_in(Self)))
    /\ op' = "zoom_in"
    /\ UNCHANGED <<mouse_down, workers>>

zoom_out_btn(steps) ==
    /\ ghost.zoom_steps < steps
    /\ Commit(ZoomStep(zoom_out(Self)))
    /\ op' = "zoom_out"
    /\ UNCHANGED <<mouse_down, workers>>

reset_zoom_btn(steps) ==
    /\ ghost.zoom_steps < steps
    /\ Commit(ZoomStep(reset_zoom(Self)))
    /\ op' = "reset_zoom"
    /\ UNCHANGED <<mouse_down, workers>>

\* on_canvas_drag while panning: the offset moves by the pointer's movement
pan_drag(delta, steps) ==
    /\ ghost.zoom_steps < steps
    /\ Commit(ZoomStep([Self EXCEPT !.drag_offset =
           <<RatAdd(drag_offset[1], Rat(delta[1], 1)),
             RatAdd(drag_offset[2], Rat(delta[2], 1))>>]))
    /\ op' = "pan_drag"
    /\ UNCHANGED <<mouse_down, workers>>

\* the state after a wheel event at canvas point cursor, up or down
wheel_zoom(s, up, cursor) ==
    LET factor == IF up THEN ZoomWheelStep ELSE RatDiv(Rat(1, 1), ZoomWheelStep)
        old_zoom == s.zoom_scale
        new_zoom == RatMax(MinZoom, RatMin(MaxZoom, RatMul(old_zoom, factor)))
        diff == RatSub(new_zoom, old_zoom)
        center_x == RatAdd(Rat(CanvasW, 2), s.drag_offset[1])
        center_y == RatAdd(Rat(CanvasH, 2), s.drag_offset[2])
        vx == RatSub(Rat(cursor[1], 1), center_x)
        vy == RatSub(Rat(cursor[2], 1), center_y)
        scale_ratio == RatDiv(new_zoom, old_zoom)
        new_center_x == RatSub(Rat(cursor[1], 1), RatMul(vx, scale_ratio))
        new_center_y == RatSub(Rat(cursor[2], 1), RatMul(vy, scale_ratio))
    IN IF RatLess(Rat(Abs(diff.n), diff.d), Rat(1, 1000))
       THEN s
       ELSE [s EXCEPT !.drag_offset =
                          <<RatSub(new_center_x, Rat(CanvasW, 2)),
                            RatSub(new_center_y, Rat(CanvasH, 2))>>,
                      !.zoom_scale = new_zoom]

on_mouse_wheel(up, cursor, steps) ==
    /\ ghost.zoom_steps < steps
    /\ Commit([ZoomStep(wheel_zoom(Self, up, cursor))
                  EXCEPT !.g.wheel_cursor = cursor])
    /\ op' = "on_mouse_wheel"
    /\ UNCHANGED <<mouse_down, workers>>

(***************************************************************************)
(* SpotlessFilmModern: image load, threshold, detection, removal           *)
(***************************************************************************)
ImageSize(img) == <<ImageW(img), ImageH(img)>>

\* button and slider handlers need the pointer, which the canvas holds while
\* button 1 is down
PointerFree == ~mouse_down

load_models ==
    /\ ~unet_model
    /\ Commit(Other([Self EXCEPT !.unet_model = TRUE]))
    /\ op' = "load_models"
    /\ UNCHANGED <<mouse_down, workers>>

load_image(img) ==
    /\ PointerFree
    /\ Commit(Other(reset_processing([Self EXCEPT !.selected_image = img])))
    /\ op' = "load_image"
    /\ UNCHANGED <<mouse_down, workers>>

update_dust_mask_with_threshold(s) ==
    IF s.raw_prediction_mask = NoPrediction \/ s.selected_image = NoImage
    THEN s
    ELSE create_low_res_mask(
             [s EXCEPT !.dust_mask =
                 create_binary_mask(s.raw_prediction_mask, s.threshold,
                                    ImageSize(s.selected_image))])

\* variant: the new threshold is applied to the edited mask, pixels that are
\* off in the current mask stay off
update_dust_mask_with_threshold_realtime_incremental(s) ==
    IF s.raw_prediction_mask = NoPrediction \/ s.selected_image = NoImage
    THEN s
    ELSE LET fresh == create_binary_mask(s.raw_prediction_mask, s.threshold,
                                         ImageSize(s.selected_image))
             kept(x, y) == IF s.dust_mask # NoMask /\ Pix(s.dust_mask, x, y) = 0
                           THEN 0 ELSE Pix(fresh, x, y)
         IN create_low_res_mask(
                [s EXCEPT !.dust_mask = MakeMask(fresh.w, fresh.h, kept)])

update_dust_mask_with_threshold_realtime(s) ==
    IF s.raw_prediction_mask = NoPrediction \/ s.selected_image = NoImage
    THEN s
    ELSE create_low_res_mask(
             [s EXCEPT !.dust_mask =
                 create_binary_mask(s.raw_prediction_mask, s.threshold,
                                    ImageSize(s.selected_image))])

on_threshold_changed(value) ==
    /\ PointerFree
    /\ LET s1 == [Self EXCEPT !.threshold = value]
       IN Commit(Other(IF s1.raw_prediction_mask # NoPrediction
                          THEN update_dust_mask_with_threshold_realtime(s1)
                          ELSE s1))
    /\ op' = "on_threshold_changed"
    /\ UNCHANGED <<mouse_down, workers>>

\* variant: only the detection flag is cleared
handle_processing_error_detect_only(s, operation) ==
    show_error([s EXCEPT !.is_detecting = FALSE], operation)

handle_processing_error(s, operation) ==
    show_error([s EXCEPT !.is_detecting = FALSE, !.is_removing = FALSE],
               operation)

RemoveAt(seq, i) == SubSeq(seq, 1, i - 1) \o SubSeq(seq, i + 1, Len(seq))
NoResult == [img |-> NoImage, k |-> 0]

\* the probability map, the two masks and the undo history; a detection task
\* carries their values at its request as the history field "before"
MaskState(s) ==
    <<s.raw_prediction_mask, s.dust_mask, s.low_res_mask, s.mask_history>>

detect_dust ==
    /\ PointerFree
    /\ LET s1 == set_tool_mode(Self, "none")
       IN IF ~can_detect_dust(s1)
          THEN /\ Commit(Other(s1))
               /\ UNCHANGED workers
          ELSE /\ Len(workers) < MaxWorkers
               /\ Commit(Other([s1 EXCEPT !.is_detecting = TRUE]))
               /\ workers' = Append(workers, [kind |-> "detect",
                                              pc |-> "predict",
                                              result |-> NoResult,
                                              new_mask |-> NoMask,
                                              before |-> MaskState(s1)])
    /\ op' = "detect_dust"
    /\ UNCHANGED mouse_down

remove_dust ==
    /\ PointerFree
    /\ IF ~can_remove_dust(Self)
       THEN /\ Commit(Other(Self))
            /\ UNCHANGED workers
       ELSE /\ Len(workers) < MaxWorkers
            /\ Commit(Other([set_tool_mode(Self, "none")
                                EXCEPT !.is_removing = TRUE]))
            /\ workers' = Append(workers, [kind |-> "remove", pc |-> "run",
                                           result |-> NoResult,
                                           new_mask |-> NoMask])
    /\ op' = "remove_dust"
    /\ UNCHANGED mouse_down

(***************************************************************************)
(* Background workers                                                      *)
(***************************************************************************)
WorkerAt(i, kind, pc) ==
    /\ i \in 1..Len(workers)
    /\ workers[i].kind = kind
    /\ workers[i].pc = pc

\* detect_worker: predict_dust_mask on the image selected when it runs
detect_worker_predict(i, k) ==
    /\ WorkerAt(i, "detect", "predict")
    /\ workers' = [workers EXCEPT ![i].pc = "cb_raw",
                                  ![i].result = [img |-> selected_image, k |-> k]]
    /\ Commit(Other(Self))
    /\ op' = "detect_worker_predict"
    /\ UNCHANGED mouse_down

\* completion_callback, line 1441
completion_raw(i) ==
    /\ WorkerAt(i, "detect", "cb_raw")
    /\ Commit(Other([Self EXCEPT !.raw_prediction_mask = workers[i].result]))
    /\ workers' = [workers EXCEPT ![i].pc = "cb_mask"]
    /\ op' = "completion_raw"
    /\ UNCHANGED mouse_down

\* completion_callback, line 1445: update_dust_mask_with_threshold up to its
\* call of create_binary_mask, whose result is the local new_mask; the map,
\* the threshold and the image size are read here, on the worker thread
completion_mask(i) ==
    /\ WorkerAt(i, "detect", "cb_mask")
    /\ workers' =
           [workers EXCEPT
                ![i].pc = "cb_assign",
                ![i].new_mask =
                    IF raw_prediction_mask = NoPrediction
                           \/ selected_image = NoImage
                    THEN NoMask
                    ELSE create_binary_mask(raw_prediction_mask, threshold,
                                            ImageSize(selected_image))]
    /\ Commit(Other(Self))
    /\ op' = "completion_mask"
    /\ UNCHANGED mouse_down

\* completion_callback, lines 1445-1451: the rest of
\* update_dust_mask_with_threshold (the assignment of new_mask and
\* create_low_res_mask), then create_low_res_mask again
completion_assign(i) ==
    /\ WorkerAt(i, "detect", "cb_assign")
    /\ Commit(Other(create_low_res_mask(
           IF workers[i].new_mask = NoMask
           THEN Self
           ELSE create_low_res_mask(
                    [Self EXCEPT !.dust_mask = workers[i].new_mask]))))
    /\ workers' = [workers EXCEPT ![i].pc = "cb_hist",
                                  ![i].new_mask = NoMask]
    /\ op' = "completion_assign"
    /\ UNCHANGED mouse_down

\* completion_callback, lines 1454-1456
completion_history(i) ==
    /\ WorkerAt(i, "detect", "cb_hist")
    /\ LET s1 == clear_mask_history(Self)
       IN Commit(Other(IF s1.dust_mask # NoMask
                          THEN save_mask_to_history(s1) ELSE s1))
    /\ workers' = [workers EXCEPT ![i].pc = "cb_flag"]
    /\ op' = "completion_history"
    /\ UNCHANGED mouse_down

\* variant: the callback ends without clearing is_detecting
completion_flag_keeps_flag(i) ==
    /\ WorkerAt(i, "detect", "cb_flag")
    /\ Commit(Other(Self))
    /\ workers' = RemoveAt(workers, i)
    /\ op' = "completion_flag"
    /\ UNCHANGED mouse_down

\* completion_callback, line 1458; the worker thread ends
completion_flag(i) ==
    /\ WorkerAt(i, "detect", "cb_flag")
    /\ Commit(Other([Self EXCEPT !.is_detecting = FALSE]))
    /\ workers' = RemoveAt(workers, i)
    /\ op' = "completion_flag"
    /\ UNCHANGED mouse_down

\* an exception in predict_dust_mask (error_callback) or while the completion
\* callback builds the masks and the history (its except branch)
detect_worker_error(i) ==
    /\ i \in 1..Len(workers)
    /\ workers[i].kind = "detect"
    /\ workers[i].pc \in {"predict", "cb_mask", "cb_assign", "cb_hist"}
    /\ Commit(Other(handle_processing_error(Self, "dust detection")))
    /\ workers' = RemoveAt(workers, i)
    /\ op' = "handle_processing_error"
    /\ UNCHANGED mouse_down

\* ProcessingTask._run: perform_dust_removal on the image and mask present
\* when it runs; the outcome is handed to the event loop with after_idle
remove_worker_run(i, ok) ==
    /\ WorkerAt(i, "remove", "run")
    /\ workers' =
           IF ok /\ selected_image # NoImage /\ dust_mask # NoMask
           THEN [workers EXCEPT ![i].pc = "ui_done",
                                ![i].result = [img |-> selected_image, k |-> 0]]
           ELSE [workers EXCEPT ![i].pc = "ui_error"]
    /\ Commit(Other(Self))
    /\ op' = "remove_worker_run"
    /\ UNCHANGED mouse_down

\* remove_dust.completion_callback.update_ui, on the UI thread
remove_update_ui(i) ==
    /\ WorkerAt(i, "remove", "ui_done")
    /\ Commit(Other([Self EXCEPT !.processed_image = workers[i].result.img,
                                    !.is_removing = FALSE]))
    /\ workers' = RemoveAt(workers, i)
    /\ op' = "remove_update_ui"
    /\ UNCHANGED mouse_down

\* remove_dust.error_callback.handle_error, on the UI thread
remove_handle_error(i) ==
    /\ WorkerAt(i, "remove", "ui_error")
    /\ Commit(Other(handle_processing_error(Self, "dust removal")))
    /\ workers' = RemoveAt(workers, i)
    /\ op' = "handle_processing_error"
    /\ UNCHANGED mouse_down

(***************************************************************************)
(* ImageProcessingService.blend_images                                     *)
(* Colour images are rasters [mode, w, h, px]: px holds <<r, g, b>> for    *)
(* mode "RGB" and <<v>> for mode "L".                                      *)
(***************************************************************************)
\* Image.convert('RGB'): a grey value becomes three equal channels
ConvertRGB(img) ==
    IF img.mode = "L"
    THEN [mode |-> "RGB", w |-> img.w, h |-> img.h,
          px |-> [i \in 1..Len(img.px) |->
                   <<img.px[i][1], img.px[i][1], img.px[i][1]>>]]
    ELSE img

\* np.clip(blended, 0, 255)
Clip(v) == IF v < 0 THEN 0 ELSE IF v > 255 THEN 255 ELSE v

\* orig * (1 - m/255) + inpaint * (m/255), clipped and truncated to uint8;
\* the float arithmetic is exact when m is 0 or 255
BlendChannel(o, p, m) == Clip((o * (255 - m) + p * m) \div 255)

\* the blend with the roles of the two images exchanged
blend_images_inverted(original, inpainted, mask) ==
    LET orig == ConvertRGB(original)
        inp == ConvertRGB(inpainted)
        msk == IF <<mask.w, mask.h>> # <<orig.w, orig.h>>
               THEN ResizeNearest(mask, orig.w, orig.h) ELSE mask
    IN [mode |-> "RGB", w |-> orig.w, h |-> orig.h,
        px |-> [i \in 1..Len(orig.px) |->
                   [c \in 1..3 |-> BlendChannel(inp.px[i][c], orig.px[i][c],
                                                msk.px[i])]]]

\* blend_images; the inpainted image has the size of the original, as
\* cv2.inpaint returns it, so its LANCZOS resize does not run
blend_images(original, inpainted, mask) ==
    LET orig == ConvertRGB(original)
        inp == ConvertRGB(inpainted)
        msk == IF <<mask.w, mask.h>> # <<orig.w, orig.h>>
               THEN ResizeNearest(mask, orig.w, orig.h) ELSE mask
    IN [mode |-> "RGB", w |-> orig.w, h |-> orig.h,
        px |-> [i \in 1..Len(orig.px) |->
                   [c \in 1..3 |-> BlendChannel(orig.px[i][c], inp.px[i][c],
                                                msk.px[i])]]]

NoRaster == [mode |-> "none", w |-> 0, h |-> 0, px |-> << >>]

\* the blending step of perform_dust_removal in the removal worker i
blend_step(i) ==
    /\ WorkerAt(i, "remove", "blend")
    /\ workers' = [workers EXCEPT
                      ![i].pc = "blended",
                      ![i].result = blend_images(workers[i].original,
                                                 workers[i].inpainted,
                                                 workers[i].mask)]
    /\ op' = "blend_images"
    /\ UNCHANGED <<prog_vars, mouse_down, ghost>>

(***************************************************************************)
(* LamaInpainter, in src/src/image_processing.py ("service") and in         *)
(* src/dust_removal_app.py ("app").  A call is a task                       *)
(* [kind, pc, impl, available, image, mask, lama_failed, passes, outcome];  *)
(* passes are the radii cv2.inpaint has been applied with.                  *)
(***************************************************************************)
Implementations == {"service", "app"}

\* the radii of _fallback_inpaint
FallbackRadii(impl) == IF impl = "service" THEN <<5>> ELSE <<3, 7, 11>>

NoOutcome == [status |-> "none", by |-> "none", image |-> NoImage,
              mask |-> NoMask, radii |-> << >>]

\* LamaInpainter.__init__: available only when lama_cleaner imports and the
\* model manager loads
lama_init(i, import_ok, load_ok) ==
    /\ WorkerAt(i, "inpaint", "new")
    /\ workers' = [workers EXCEPT ![i].pc = "call",
                                  ![i].available = import_ok /\ load_ok]
    /\ op' = "LamaInpainter"
    /\ UNCHANGED <<prog_vars, mouse_down, ghost>>

\* inpaint: without a model the call goes to _fallback_inpaint
inpaint_enter(i) ==
    /\ WorkerAt(i, "inpaint", "call")
    /\ workers' = [workers EXCEPT
                      ![i].pc = IF workers[i].available THEN "model"
                                ELSE "fallback"]
    /\ op' = "inpaint"
    /\ UNCHANGED <<prog_vars, mouse_down, ghost>>

\* inpaint: the try block; an exception of the model is caught and the call
\* goes to _fallback_inpaint with the same image and mask
inpaint_model(i, raises) ==
    /\ WorkerAt(i, "inpaint", "model")
    /\ workers' =
           IF raises
           THEN [workers EXCEPT ![i].pc = "fallback", ![i].lama_failed = TRUE]
           ELSE [workers EXCEPT
                    ![i].pc = "done",
                    ![i].outcome = [status |-> "returned", by |-> "lama",
                                    image |-> workers[i].image,
                                    mask |-> workers[i].mask,
                                    radii |-> << >>]]
    /\ op' = "inpaint_model"
    /\ UNCHANGED <<prog_vars, mouse_down, ghost>>

\* _fallback_inpaint: one cv2.inpaint pass; an exception of cv2 leaves the
\* call, the last pass returns the result
fallback_inpaint_pass(i, raises) ==
    /\ WorkerAt(i, "inpaint", "fallback")
    /\ LET t == workers[i]
           radii == FallbackRadii(t.impl)
           done == Append(t.passes, radii[Len(t.passes) + 1])
       IN workers' =
              IF raises
              THEN [workers EXCEPT
                       ![i].pc = "done",
                       ![i].outcome = [status |-> "raised", by |-> "cv2",
                                       image |-> t.image, mask |-> t.mask,
                                       radii |-> t.passes]]
              ELSE IF Len(done) = Len(radii)
                   THEN [workers EXCEPT
                            ![i].pc = "done", ![i].passes = done,
                            ![i].outcome = [status |-> "returned",
                                            by |-> "cv2", image |-> t.image,
                                            mask |-> t.mask, radii |-> done]]
                   ELSE [workers EXCEPT ![i].passes = done]
    /\ op' = "_fallback_inpaint"
    /\ UNCHANGED <<prog_vars, mouse_down, ghost>>

(***************************************************************************)
(* DustRemovalApp.detect_dust (src/dust_removal_app.py): the windows of    *)
(* the tiled detection.  A call is a task [kind, pc, H, W, pH, pW, ys, xs]: *)
(* the image size, the padded size and the window origins on each axis.    *)
(***************************************************************************)
\* pad_h = (patch_size - H % stride) % stride if H % stride != 0 else 0
PadFor(n) ==
    IF n % stride # 0 THEN (patch_size - (n % stride)) % stride ELSE 0

\* range(0, p - patch_size + 1, stride)
WindowStarts(p) == {y \in 0..(p - patch_size) : y % stride = 0}

tiled_detect(i) ==
    /\ WorkerAt(i, "tiled", "detect")
    /\ LET t == workers[i]
           pH == t.H + PadFor(t.H)
           pW == t.W + PadFor(t.W)
       IN workers' = [workers EXCEPT ![i].pc = "done", ![i].pH = pH,
                                     ![i].pW = pW,
                                     ![i].ys = WindowStarts(pH),
                                     ![i].xs = WindowStarts(pW)]
    /\ op' = "detect_dust_tiled"
    /\ UNCHANGED <<prog_vars, mouse_down, ghost>>

(***************************************************************************)
(* Specifications                                                          *)
(***************************************************************************)
CanvasPoints == {<<35, 30>>, <<65, 30>>, <<5, 5>>}

Init ==
    /\ selected_image = NoImage
    /\ processed_image = NoImage
    /\ dust_mask = NoMask
    /\ raw_prediction_mask = NoPrediction
    /\ low_res_mask = NoMask
    /\ unet_model = FALSE
    /\ tool_mode = "none"
    /\ is_detecting = FALSE
    /\ is_removing = FALSE
    /\ threshold = DefaultThreshold
    /\ mask_history = << >>
    /\ is_dragging = FALSE
    /\ last_brush_point = NoPoint
    /\ last_eraser_point = NoPoint
    /\ error_message = "none"
    /\ showing_error = FALSE
    /\ zoom_scale = Rat(1, 1)
    /\ drag_offset = <<Rat(0, 1), Rat(0, 1)>>
    /\ mouse_down = FALSE
    /\ workers = << >>
    /\ op = "init"
    /\ ghost = GhostInit

\* the detection worker without failures
DetectStep(i, predictions) ==
    \/ \E k \in predictions : detect_worker_predict(i, k)
    \/ completion_raw(i)
    \/ completion_mask(i)
    \/ completion_assign(i)
    \/ completion_history(i)
    \/ completion_flag(i)

RemoveStep(i) ==
    \/ \E ok \in BOOLEAN : remove_worker_run(i, ok)
    \/ remove_update_ui(i)
    \/ remove_handle_error(i)

\* no background task is running
Quiet == workers = << >>

\* Spec: one image being detected and edited with both tools; the user edits
\* while no task is running
Next ==
    \/ load_models
    \/ Quiet /\ load_image("A")
    \/ Quiet /\ toggle_brush_tool
    \/ Quiet /\ toggle_eraser_tool
    \/ Quiet /\ \E point \in CanvasPoints : on_canvas_click(point, MaxDepth)
    \/ Quiet /\ \E point \in CanvasPoints : on_canvas_drag(point, MaxDepth)
    \/ Quiet /\ on_canvas_release
    \/ Quiet /\ undo_mask_change
    \/ detect_dust
    \/ \E i \in 1..MaxWorkers : DetectStep(i, 1..NumPredictions)

Spec == Init /\ [][Next]_vars

\* SpecTasks: two images, detection and removal with failures, and the brush
\* button, every interleaving of the user with the workers

NextTasks ==
    \/ load_models
    \/ \E img \in Images : load_image(img)
    \/ toggle_brush_tool
    \/ detect_dust
    \/ remove_dust
    \/ \E i \in 1..MaxWorkers : DetectStep(i, 1..NumPredictions)
    \/ \E i \in 1..MaxWorkers : detect_worker_error(i)
    \/ \E i \in 1..MaxWorkers : RemoveStep(i)

SpecTasks == Init /\ [][NextTasks]_vars

\* SpecHistory: one image and the eraser, with no bound on the strokes, so that
\* the undo history fills up
HistoryPoint == <<50, 30>>

NextHistory ==
    \/ load_models
    \/ Quiet /\ load_image("B")
    \/ Quiet /\ toggle_eraser_tool
    \/ Quiet /\ on_canvas_click(HistoryPoint, max_history_size + 1)
    \/ Quiet /\ on_canvas_release
    \/ Quiet /\ undo_mask_change
    \/ detect_dust
    \/ \E i \in 1..MaxWorkers : DetectStep(i, {1})



SpecHistory == Init /\ [][NextHistory]_vars

\* SpecThreshold: one image, the threshold slider, the eraser and removal; the
\* user acts while no task is running
ThresholdPoint == <<35, 30>>

NextThreshold ==
    \/ load_models
    \/ Quiet /\ load_image("A")
    \/ Quiet /\ \E value \in Thresholds : on_threshold_changed(value)
    \/ Quiet /\ toggle_eraser_tool
    \/ Quiet /\ on_canvas_click(ThresholdPoint, MaxDepth)
    \/ Quiet /\ on_canvas_release
    \/ Quiet /\ undo_mask_change
    \/ detect_dust
    \/ remove_dust
    \/ \E i \in 1..MaxWorkers : DetectStep(i, 1..NumPredictions)
    \/ \E i \in 1..MaxWorkers : RemoveStep(i)

SpecThreshold == Init /\ [][NextThreshold]_vars

\* SpecBinarize: create_binary_mask on every probability map, image size and
\* threshold of the sets below
BinarizeThresholds == {0, 50, 99, 100, 101, 500, 899, 900, 1000}

InitBinarize ==
    /\ selected_image \in Images
    /\ processed_image = NoImage
    /\ dust_mask = NoMask
    /\ raw_prediction_mask \in
           {[img |-> img, k |-> k] : img \in Images, k \in 1..NumPredictions}
    /\ low_res_mask = NoMask
    /\ unet_model = TRUE
    /\ tool_mode = "none"
    /\ is_detecting = FALSE
    /\ is_removing = FALSE
    /\ threshold \in BinarizeThresholds
    /\ mask_history = << >>
    /\ is_dragging = FALSE
    /\ last_brush_point = NoPoint
    /\ last_eraser_point = NoPoint
    /\ error_message = "none"
    /\ showing_error = FALSE
    /\ zoom_scale = Rat(1, 1)
    /\ drag_offset = <<Rat(0, 1), Rat(0, 1)>>
    /\ mouse_down = FALSE
    /\ workers = << >>
    /\ op = "init"
    /\ ghost = GhostInit

binarize ==
    /\ Commit([Self EXCEPT !.dust_mask =
                   create_binary_mask(raw_prediction_mask, threshold,
                                      ImageSize(selected_image))])
    /\ op' = "create_binary_mask"
    /\ UNCHANGED <<mouse_down, workers>>

NextBinarize ==
    \/ binarize
    \/ \E value \in BinarizeThresholds : on_threshold_changed(value)

SpecBinarize == InitBinarize /\ [][NextBinarize]_vars

\* SpecZoom: an image is loaded and viewed with the zoom buttons, the mouse
\* wheel and panning
MaxZoomSteps == 4
ZoomImages == {"A", "L"}
WheelCursors == {<<50, 30>>, <<37, 24>>}
PanDeltas == {<<7, -3>>}

NextZoom ==
    \/ \E img \in ZoomImages : load_image(img)
    \/ zoom_in_btn(MaxZoomSteps)
    \/ zoom_out_btn(MaxZoomSteps)
    \/ reset_zoom_btn(MaxZoomSteps)
    \/ \E delta \in PanDeltas : pan_drag(delta, MaxZoomSteps)
    \/ \E up \in BOOLEAN, cursor \in WheelCursors :
           on_mouse_wheel(up, cursor, MaxZoomSteps)

SpecZoom == Init /\ [][NextZoom]_vars

\* SpecBlend: blend_images on every original, inpainted image and mask of the
\* sets below; the masks include half-on values and a half-size mask
BlendColours == {<<10, 20, 30>>, <<255, 0, 128>>}
InpaintColours == {<<200, 100, 50>>, <<0, 255, 7>>}
BlendOriginals ==
    {[mode |-> "RGB", w |-> 2, h |-> 1, px |-> <<a, b>>] :
         a \in BlendColours, b \in BlendColours}
    \cup {[mode |-> "L", w |-> 2, h |-> 1, px |-> <<<<40>>, <<90>>>>]}
BlendInpainted ==
    {[mode |-> "RGB", w |-> 2, h |-> 1, px |-> <<a, b>>] :
         a \in InpaintColours, b \in InpaintColours}
BlendMasks ==
    {[w |-> 2, h |-> 1, px |-> <<a, b>>] : a \in {0, 128, 255}, b \in {0, 128, 255}}
    \cup {[w |-> 1, h |-> 1, px |-> <<a>>] : a \in {0, 255}}

InitBlend ==
    /\ selected_image = "B"
    /\ processed_image = NoImage
    /\ dust_mask = NoMask
    /\ raw_prediction_mask = NoPrediction
    /\ low_res_mask = NoMask
    /\ unet_model = TRUE
    /\ tool_mode = "none"
    /\ is_detecting = FALSE
    /\ is_removing = TRUE
    /\ threshold = DefaultThreshold
    /\ mask_history = << >>
    /\ is_dragging = FALSE
    /\ last_brush_point = NoPoint
    /\ last_eraser_point = NoPoint
    /\ error_message = "none"
    /\ showing_error = FALSE
    /\ zoom_scale = Rat(1, 1)
    /\ drag_offset = <<Rat(0, 1), Rat(0, 1)>>
    /\ mouse_down = FALSE
    /\ workers \in {<<[kind |-> "remove", pc |-> "blend", original |-> o,
                       inpainted |-> p, mask |-> m, result |-> NoRaster]>> :
                        o \in BlendOriginals, p \in BlendInpainted,
                        m \in BlendMasks}
    /\ op = "init"
    /\ ghost = GhostInit

NextBlend == \E i \in 1..MaxWorkers : blend_step(i)

SpecBlend == InitBlend /\ [][NextBlend]_vars

\* SpecInpaint: one LamaInpainter of either implementation is constructed and
\* called on an image and a mask
InpaintMasks ==
    {[w |-> 2, h |-> 1, px |-> <<a, b>>] : a \in {0, 255}, b \in {0, 255}}

InitInpaint ==
    /\ selected_image \in Images
    /\ processed_image = NoImage
    /\ dust_mask \in InpaintMasks
    /\ raw_prediction_mask = NoPrediction
    /\ low_res_mask = NoMask
    /\ unet_model = TRUE
    /\ tool_mode = "none"
    /\ is_detecting = FALSE
    /\ is_removing = TRUE
    /\ threshold = DefaultThreshold
    /\ mask_history = << >>
    /\ is_dragging = FALSE
    /\ last_brush_point = NoPoint
    /\ last_eraser_point = NoPoint
    /\ error_message = "none"
    /\ showing_error = FALSE
    /\ zoom_scale = Rat(1, 1)
    /\ drag_offset = <<Rat(0, 1), Rat(0, 1)>>
    /\ mouse_down = FALSE
    /\ workers \in {<<[kind |-> "inpaint", pc |-> "new", impl |-> impl,
                       available |-> FALSE, image |-> selected_image,
                       mask |-> dust_mask, lama_failed |-> FALSE,
                       passes |-> << >>, outcome |-> NoOutcome]>> :
                        impl \in Implementations}
    /\ op = "init"
    /\ ghost = GhostInit

NextInpaint ==
    \/ \E i \in 1..MaxWorkers, import_ok \in BOOLEAN, load_ok \in BOOLEAN :
           lama_init(i, import_ok, load_ok)
    \/ \E i \in 1..MaxWorkers : inpaint_enter(i)
    \/ \E i \in 1..MaxWorkers, raises \in BOOLEAN : inpaint_model(i, raises)
    \/ \E i \in 1..MaxWorkers, raises \in BOOLEAN :
           fallback_inpaint_pass(i, raises)

SpecInpaint == InitInpaint /\ [][NextInpaint]_vars

\* SpecDetectFail: detections that may fail at any step, on an image whose
\* earlier detection may have succeeded; the user acts while no task is running
NextDetectFail ==
    \/ load_models
    \/ Quiet /\ \E img \in Images : load_image(img)
    \/ Quiet /\ \E value \in Thresholds : on_threshold_changed(value)
    \/ detect_dust
    \/ \E i \in 1..MaxWorkers : DetectStep(i, 1..NumPredictions)
    \/ \E i \in 1..MaxWorkers : detect_worker_error(i)

SpecDetectFail == Init /\ [][NextDetectFail]_vars

\* SpecStroke: interpolated_stroke between every two points and with every
\* radius of the sets below, on a blank and on a striped low-resolution mask
StrokePoints ==
    {Point(1, 1, 1, 1), Point(3, 2, 3, 2), Point(5, 2, 1, 1), Point(4, 1, 2, 1),
     Point(6, 1, 2, 1), Point(13, 2, 5, 2), Point(1, 2, 7, 2)}
StrokeRadii == {1, 2, 6}
StrokeMasks ==
    {[w |-> 8, h |-> 4, px |-> [i \in 1..32 |-> 0]],
     [w |-> 8, h |-> 4, px |-> [i \in 1..32 |-> IF i % 3 = 0 THEN 255 ELSE 0]]}

InitStroke ==
    /\ selected_image = "A"
    /\ processed_image = NoImage
    /\ dust_mask = NoMask
    /\ raw_prediction_mask = NoPrediction
    /\ low_res_mask \in StrokeMasks
    /\ unet_model = TRUE
    /\ tool_mode = "brush"
    /\ is_detecting = FALSE
    /\ is_removing = FALSE
    /\ threshold = DefaultThreshold
    /\ mask_history = << >>
    /\ is_dragging = TRUE
    /\ last_brush_point \in StrokePoints
    /\ last_eraser_point = NoPoint
    /\ error_message = "none"
    /\ showing_error = FALSE
    /\ zoom_scale = Rat(1, 1)
    /\ drag_offset = <<Rat(0, 1), Rat(0, 1)>>
    /\ mouse_down = TRUE
    /\ workers = << >>
    /\ op = "init"
    /\ ghost = GhostInit

NextStroke ==
    \E low_res_point \in StrokePoints, brush_radius \in StrokeRadii :
        apply_stroke_segment(low_res_point, brush_radius)

SpecStroke == InitStroke /\ [][NextStroke]_vars

\* SpecLive: detections and removals of one image that may fail, with the
\* worker threads and the idle callbacks of the event loop scheduled fairly
WorkerNext ==
    \/ \E i \in 1..MaxWorkers : DetectStep(i, 1..NumPredictions)
    \/ \E i \in 1..MaxWorkers : detect_worker_error(i)
    \/ \E i \in 1..MaxWorkers : RemoveStep(i)

NextLive ==
    \/ load_models
    \/ Quiet /\ load_image("B")
    \/ detect_dust
    \/ remove_dust
    \/ WorkerNext

SpecLive == Init /\ [][NextLive]_vars /\ WF_vars(WorkerNext)

\* SpecTiled: the tiled detection on images of the heights and widths below
TileSizes == {1, 300, 512, 513, 1024, 1025, 1536, 1537}

InitTiled ==
    /\ selected_image = NoImage
    /\ processed_image = NoImage
    /\ dust_mask = NoMask
    /\ raw_prediction_mask = NoPrediction
    /\ low_res_mask = NoMask
    /\ unet_model = TRUE
    /\ tool_mode = "none"
    /\ is_detecting = FALSE
    /\ is_removing = FALSE
    /\ threshold = DefaultThreshold
    /\ mask_history = << >>
    /\ is_dragging = FALSE
    /\ last_brush_point = NoPoint
    /\ last_eraser_point = NoPoint
    /\ error_message = "none"
    /\ showing_error = FALSE
    /\ zoom_scale = Rat(1, 1)
    /\ drag_offset = <<Rat(0, 1), Rat(0, 1)>>
    /\ mouse_down = FALSE
    /\ workers \in {<<[kind |-> "tiled", pc |-> "detect", H |-> h, W |-> w,
                       pH |-> 0, pW |-> 0, ys |-> {}, xs |-> {}]>> :
                        h \in TileSizes, w \in TileSizes}
    /\ op = "init"
    /\ ghost = GhostInit

NextTiled == \E i \in 1..MaxWorkers : tiled_detect(i)

SpecTiled == InitTiled /\ [][NextTiled]_vars

(***************************************************************************)
(* Properties                                                              *)
(***************************************************************************)
PointOps == {"on_canvas_click", "on_canvas_drag"}
ToolModes == {"brush", "eraser"}

\* C1: when start_brush_stroke ran with no stroke active and a mask present and
\* only brush/eraser points were applied since, an undo makes the
\* full-resolution mask equal to the mask held just before start_brush_stroke.
C1_UndoRestoresPreStroke ==
    [][(op' = "undo_mask_change" /\ ghost.clean)
           => dust_mask' = ghost.pre_stroke]_vars

\* an undo was made after the two points of a clean stroke
C1_Witness ==
    /\ op = "undo_mask_change"
    /\ ghost.pre_stroke # NoMask
    /\ ghost.session_points = 2
    /\ dust_mask = ghost.pre_stroke

\* C3: at the release of every session in which a brush/eraser point handler
\* ran, the session has pushed exactly one snapshot.
C3_OneSnapshotPerSession ==
    (op = "on_canvas_release" /\ ghost.session_points > 0)
        => ghost.session_pushes = 1

\* C4: while a stroke is active a point handler leaves the undo history as it
\* is, and the active stroke has pushed exactly one snapshot.
C4_NoPushWhileDragging ==
    /\ [](is_dragging => ghost.stroke_pushes = 1)
    /\ [][(is_dragging /\ op' \in PointOps)
              => mask_history' = mask_history]_vars

\* the second point of a drag has been applied
C4_Witness ==
    /\ op = "on_canvas_drag"
    /\ is_dragging
    /\ ghost.session_points = 2
    /\ ghost.session_pushes = 1

\* C5: an undo with a non-empty history removes the last snapshot, makes it the
\* full-resolution mask and rebuilds the low-resolution mask from it; an undo
\* with an empty history changes neither the masks nor the history.
C5_UndoPopsMostRecent ==
    [][op' = "undo_mask_change" =>
          IF mask_history = << >>
          THEN /\ mask_history' = mask_history
               /\ dust_mask' = dust_mask
               /\ low_res_mask' = low_res_mask
          ELSE LET n == Len(mask_history)
                   top == mask_history[n]
               IN /\ mask_history' = [i \in 1..(n - 1) |-> mask_history[i]]
                  /\ dust_mask' = top
                  /\ low_res_mask' =
                         ResizeNearest(top, top.w \div LowResScaleDen,
                                       top.h \div LowResScaleDen)]_vars

\* an undo has popped a snapshot from a history that held at least two
C5_Witness ==
    /\ op = "undo_mask_change"
    /\ Len(mask_history) >= 1
    /\ dust_mask # NoMask

\* C6: after a release that ran end_brush_stroke no stroke is active, both
\* last points are cleared, and the full-resolution mask is the
\* nearest-neighbour upscale of the low-resolution mask.
C6_EndStrokeSyncs ==
    (op = "on_canvas_release" /\ tool_mode \in ToolModes) =>
        /\ ~is_dragging
        /\ last_brush_point = NoPoint
        /\ last_eraser_point = NoPoint
        /\ (dust_mask # NoMask /\ low_res_mask # NoMask) =>
               dust_mask = ResizeNearest(low_res_mask, dust_mask.w, dust_mask.h)

\* a session with points has been released with the tool still selected
C6_Witness ==
    /\ op = "on_canvas_release"
    /\ tool_mode \in ToolModes
    /\ ghost.session_points > 0
    /\ dust_mask # NoMask
    /\ low_res_mask # NoMask

\* C2: the undo history never holds more than max_history_size snapshots, and
\* a stroke that begins when it holds max_history_size drops the oldest
\* snapshot, keeps the others in order and appends the current mask.
C2_HistoryBoundedFifo ==
    /\ [](Len(mask_history) <= max_history_size)
    /\ [][(~is_dragging /\ is_dragging'
               /\ Len(mask_history) = max_history_size)
              => mask_history' = Append(Tail(mask_history), dust_mask)]_vars

\* the history is full and the detection snapshot at its head has been evicted
C2_Witness ==
    /\ op = "on_canvas_click"
    /\ Len(mask_history) = max_history_size
    /\ mask_history[1] = mask_history[max_history_size]
    /\ mask_history[1] # create_binary_mask(raw_prediction_mask, threshold,
                                            ImageSize(selected_image))

DetectWorkers == {i \in 1..Len(workers) : workers[i].kind = "detect"}
RemoveWorkers == {i \in 1..Len(workers) : workers[i].kind = "remove"}

\* C7: at most one detection worker and at most one removal worker exist, and
\* a detect or remove request made while a flag is set starts no worker and
\* sets no flag.
C7_OneTaskInFlight ==
    /\ [](Cardinality(DetectWorkers) <= 1 /\ Cardinality(RemoveWorkers) <= 1)
    /\ [][(op' \in {"detect_dust", "remove_dust"}
               /\ (is_detecting \/ is_removing))
              => /\ workers' = workers
                 /\ is_detecting' = is_detecting
                 /\ is_removing' = is_removing]_vars

\* a detect request has been rejected while a removal was running
C7_Witness ==
    /\ op = "detect_dust"
    /\ is_removing
    /\ ~is_detecting
    /\ Cardinality(RemoveWorkers) = 1

\* C8: the stored probability map and the stored removal result were computed
\* from the image that is selected now.
C8_NoStaleResult ==
    /\ raw_prediction_mask # NoPrediction
           => raw_prediction_mask.img = selected_image
    /\ processed_image # NoImage => processed_image = selected_image

\* C9: while is_detecting or is_removing is set the tool mode is none.
C9_NoToolWhileProcessing ==
    (is_detecting \/ is_removing) => tool_mode = "none"

\* C10: after a failure both flags are clear and the error is recorded, and a
\* detect request that follows with image and model present is accepted.
C10_FailureAllowsRetry ==
    /\ [](op = "handle_processing_error"
              => /\ ~is_detecting
                 /\ ~is_removing
                 /\ showing_error
                 /\ error_message \in {"dust detection", "dust removal"})
    /\ [][(op = "handle_processing_error" /\ op' = "detect_dust"
               /\ selected_image # NoImage /\ unet_model)
              => /\ is_detecting'
                 /\ Len(workers') = Len(workers) + 1]_vars

\* a detection has been started after a failure was recorded
C10_Witness ==
    /\ op = "detect_dust"
    /\ is_detecting
    /\ showing_error
    /\ Cardinality(DetectWorkers) = 1

\* C11: a removal starts only when a mask exists; after an image load the
\* masks, the probability map and the processed image are absent, the history
\* is empty and no stroke is active; a remove request made while no mask exists
\* starts no worker and sets no flag.
C11_RemovalNeedsMask ==
    /\ [](op = "load_image"
              => /\ dust_mask = NoMask
                 /\ low_res_mask = NoMask
                 /\ raw_prediction_mask = NoPrediction
                 /\ processed_image = NoImage
                 /\ mask_history = << >>
                 /\ ~is_dragging)
    /\ [][(op' = "remove_dust" /\ dust_mask = NoMask)
              => /\ workers' = workers
                 /\ is_removing' = is_removing]_vars
    /\ [][(~is_removing /\ is_removing') => dust_mask # NoMask]_vars

\* a remove request has been rejected on a loaded image without a mask
C11_Witness ==
    /\ op = "remove_dust"
    /\ selected_image # NoImage
    /\ dust_mask = NoMask
    /\ ~is_removing
    /\ ~is_detecting
    /\ workers = << >>

\* C12: a canvas point event that leaves both last points unset - its point
\* was outside the image rectangle, or no mask exists, or no tool is selected -
\* changes neither mask, nor the undo history, nor the stroke-active flag.
C12_OutsidePointIgnored ==
    [][(op' \in PointOps /\ last_brush_point' = NoPoint
            /\ last_eraser_point' = NoPoint)
           => UNCHANGED <<dust_mask, low_res_mask, mask_history,
                          is_dragging>>]_vars

IsBinary(m) == \A i \in 1..Len(m.px) : m.px[i] \in {0, 255}
IsMixed(m) == (\E i \in 1..Len(m.px) : m.px[i] = 0)
                  /\ (\E i \in 1..Len(m.px) : m.px[i] = 255)

\* C13: the full-resolution mask, the low-resolution mask and every snapshot
\* of the undo history hold only the values 0 and 255.
C13_MasksBinary ==
    /\ IsBinary(dust_mask)
    /\ IsBinary(low_res_mask)
    /\ \A i \in 1..Len(mask_history) : IsBinary(mask_history[i])

\* a stroke session has ended on a mask that holds both values
C13_Witness ==
    /\ op = "on_canvas_release"
    /\ ghost.session_points > 0
    /\ IsMixed(dust_mask)
    /\ IsMixed(low_res_mask)
    /\ Len(mask_history) >= 2

\* C14: whenever an image is selected and a full-resolution mask exists, the
\* mask has the width and the height of the selected image.
C14_MaskHasImageSize ==
    (selected_image # NoImage /\ dust_mask # NoMask)
        => <<dust_mask.w, dust_mask.h>> = ImageSize(selected_image)

\* the thresholding of the stored probability map at the stored threshold, one
\* pixel of the selected image per pixel of the map
Thresholded ==
    [w |-> ImageW(selected_image), h |-> ImageH(selected_image),
     px |-> [i \in 1..(ImageW(selected_image) * ImageH(selected_image)) |->
                IF Prob(raw_prediction_mask.img, raw_prediction_mask.k,
                        (i - 1) % ImageW(selected_image),
                        (i - 1) \div ImageW(selected_image)) > threshold
                THEN 255 ELSE 0]]

\* C15: a threshold change, a canvas event, an undo, a tool toggle and the
\* steps of a removal leave the probability map as it is; after a threshold
\* change the full-resolution mask is the thresholding of the map at the new
\* threshold, whatever the mask was before, and the low-resolution mask is its
\* downscale.
C15_ThresholdRederivesMask ==
    /\ [][op' \in {"on_threshold_changed", "on_canvas_click",
                   "on_canvas_release", "undo_mask_change",
                   "toggle_eraser_tool", "remove_dust", "remove_worker_run",
                   "remove_update_ui", "handle_processing_error"}
              => raw_prediction_mask' = raw_prediction_mask]_vars
    /\ [](op = "on_threshold_changed" /\ raw_prediction_mask # NoPrediction
              => /\ dust_mask = Thresholded
                 /\ low_res_mask =
                        ResizeNearest(Thresholded,
                                      Thresholded.w \div LowResScaleDen,
                                      Thresholded.h \div LowResScaleDen))

\* the threshold has been changed on a mask that the eraser had cleared
C15_Witness ==
    /\ op = "on_threshold_changed"
    /\ raw_prediction_mask # NoPrediction
    /\ Len(mask_history) >= 2
    /\ ~IsMixed(mask_history[Len(mask_history)])
    /\ IsMixed(dust_mask)

\* the pixel of the probability map that nearest-neighbour resizing shows at
\* pixel (x, y) of the selected image
SourceProb(x, y) ==
    Prob(raw_prediction_mask.img, raw_prediction_mask.k,
         ((2 * x + 1) * ImageW(raw_prediction_mask.img))
             \div (2 * ImageW(selected_image)),
         ((2 * y + 1) * ImageH(raw_prediction_mask.img))
             \div (2 * ImageH(selected_image)))

\* C16: for thresholds t1 < t2 every pixel that is on in the mask binarized at
\* t2 is on in the mask binarized at t1 from the same map, and a pixel of the
\* mask is on exactly when its probability is strictly greater than the
\* threshold.
C16_ThresholdMonotone ==
    /\ \A t1, t2 \in BinarizeThresholds :
           t1 < t2 =>
               LET low == create_binary_mask(raw_prediction_mask, t1,
                                             ImageSize(selected_image))
                   high == create_binary_mask(raw_prediction_mask, t2,
                                              ImageSize(selected_image))
               IN \A i \in 1..Len(high.px) :
                      high.px[i] = 255 => low.px[i] = 255
    /\ dust_mask # NoMask =>
           \A x \in 0..(dust_mask.w - 1), y \in 0..(dust_mask.h - 1) :
               (Pix(dust_mask, x, y) = 255) <=> (SourceProb(x, y) > threshold)

\* a map has been binarized at a threshold equal to one of its probabilities
C16_Witness ==
    /\ op = "create_binary_mask"
    /\ threshold = 100
    /\ IsMixed(dust_mask)
    /\ dust_mask # create_binary_mask(raw_prediction_mask, 99,
                                      ImageSize(selected_image))

\* zoom scale b is zoom scale a times num / den, clamped to [1, 5]
ClampedStep(a, b, num, den) ==
    IF a.n * num > 5 * a.d * den
    THEN b = Rat(5, 1)
    ELSE IF a.n * num < a.d * den
         THEN b = Rat(1, 1)
         ELSE b = Rat(a.n * num, a.d * den)

\* C17: the zoom scale always lies in [1.0, 5.0]; a button step multiplies or
\* divides it by 1.5 and a wheel step by 1.10 (or leaves it), clamped to that
\* range, and reset_zoom and an image load set it to 1.0.
C17_ZoomClamped ==
    /\ [](zoom_scale.d > 0 /\ zoom_scale.n >= zoom_scale.d
              /\ zoom_scale.n <= 5 * zoom_scale.d)
    /\ [][/\ op' = "zoom_in" => ClampedStep(zoom_scale, zoom_scale', 3, 2)
          /\ op' = "zoom_out" => ClampedStep(zoom_scale, zoom_scale', 2, 3)
          /\ op' = "on_mouse_wheel" =>
                 \/ zoom_scale' = zoom_scale
                 \/ ClampedStep(zoom_scale, zoom_scale', 11, 10)
                 \/ ClampedStep(zoom_scale, zoom_scale', 10, 11)
          /\ op' \in {"reset_zoom", "load_image"} =>
                 zoom_scale'.n = zoom_scale'.d]_vars

\* the fourth zoom_in in a row has been clamped to 5.0
C17_Witness ==
    /\ op = "zoom_in"
    /\ zoom_scale = [n |-> 5, d |-> 1]
    /\ ghost.zoom_steps = 4

\* the image-pixel coordinate shown at canvas point c, as
\* convert_to_low_res_coordinates maps it through image_item_bounds
ImageCoord(img, zoom, offset, c) ==
    LET b == display_single_view(img, zoom, offset)
    IN <<Rat((c[1] - b[1]) * ImageW(img), b[3]),
         Rat((c[2] - b[2]) * ImageH(img), b[4])>>

InsideImage(img, zoom, offset, c) ==
    LET b == display_single_view(img, zoom, offset)
    IN /\ c[1] >= b[1] /\ c[1] <= b[1] + b[3]
       /\ c[2] >= b[2] /\ c[2] <= b[2] + b[4]

\* rationals a and b differ by at most tol
Within(a, b, tol) ==
    LET diff == RatSub(a, b)
    IN Abs(diff.n) <= tol * diff.d

\* C18: a wheel step at a cursor that is over the image leaves the image-pixel
\* coordinate under the cursor where it was, within one image pixel.
C18_WheelKeepsCursorPixel ==
    [][(op' = "on_mouse_wheel" /\ selected_image # NoImage
            /\ InsideImage(selected_image, zoom_scale, drag_offset,
                           ghost'.wheel_cursor))
           => LET before == ImageCoord(selected_image, zoom_scale, drag_offset,
                                       ghost'.wheel_cursor)
                  after == ImageCoord(selected_image, zoom_scale',
                                      drag_offset', ghost'.wheel_cursor)
              IN /\ Within(before[1], after[1], 1)
                 /\ Within(before[2], after[2], 1)]_vars


\* the mask as blend_images applies it to an image of the original's size
BlendMask(t) ==
    IF <<t.mask.w, t.mask.h>> # <<t.original.w, t.original.h>>
    THEN ResizeNearest(t.mask, t.original.w, t.original.h) ELSE t.mask

BlendedTasks ==
    {workers[i] : i \in {j \in 1..Len(workers) :
                            workers[j].kind = "remove" /\ workers[j].pc = "blended"}}

\* C19: with a binary mask, blend_images returns in every channel the original
\* pixel where the mask is 0 and the inpainted pixel where it is 255; with an
\* all-off mask the output is the original image.
C19_BlendSelectsByMask ==
    \A t \in BlendedTasks :
        IsBinary(t.mask) =>
            /\ \A i \in 1..Len(t.result.px), c \in 1..3 :
                   /\ BlendMask(t).px[i] = 0
                          => t.result.px[i][c] = ConvertRGB(t.original).px[i][c]
                   /\ BlendMask(t).px[i] = 255
                          => t.result.px[i][c] = ConvertRGB(t.inpainted).px[i][c]
            /\ (\A i \in 1..Len(t.mask.px) : t.mask.px[i] = 0)
                   => t.result = ConvertRGB(t.original)

\* a blend under a mask that is off on the first pixel and on on the second
C19_Witness ==
    \E t \in BlendedTasks :
        /\ t.mask = [w |-> 2, h |-> 1, px |-> <<0, 255>>]
        /\ t.result.px = <<t.original.px[1], t.inpainted.px[2]>>
        /\ t.original.mode = "RGB"


InpaintCalls ==
    {workers[i] : i \in {j \in 1..Len(workers) :
                            workers[j].kind = "inpaint" /\ workers[j].pc = "done"}}

\* C20: inpaint never raises a failure of the deep model; when the model is
\* unavailable or its call raised, a returned result is that of one classical
\* pass on the same image and mask, and only a failure of the classical
\* fallback leaves the call.
C20_FallbackSinglePass ==
    \A t \in InpaintCalls :
        /\ t.outcome.status = "raised" => t.outcome.by = "cv2"
        /\ (t.outcome.status = "returned" /\ (~t.available \/ t.lama_failed))
               => /\ t.outcome.by = "cv2"
                  /\ Len(t.outcome.radii) = 1
                  /\ t.outcome.image = t.image
                  /\ t.outcome.mask = t.mask


\* the steps that run on a background thread: detect_worker with the
\* completion callback it calls, and ProcessingTask._run up to its hand-over
WorkerThreadOps ==
    {"detect_worker_predict", "completion_raw", "completion_mask",
     "completion_assign", "completion_history", "completion_flag",
     "remove_worker_run"}

SessionState ==
    <<raw_prediction_mask, dust_mask, low_res_mask, mask_history, is_detecting,
      is_removing, processed_image>>

\* C21: a step of a background thread never writes the probability map, the
\* masks, the undo history, the in-flight flags or the processed image.
C21_WorkersDoNotWriteSession ==
    [][op' \in WorkerThreadOps => UNCHANGED SessionState]_vars


\* C22: when a detection fails, in predict_dust_mask or in its completion
\* callback, the probability map, both masks and the undo history are what they
\* were when the detection was requested.
C22_FailedDetectionRestores ==
    [][\A i \in 1..Len(workers) :
           (op' = "handle_processing_error" /\ workers[i].kind = "detect"
                /\ workers' = RemoveAt(workers, i))
               => <<raw_prediction_mask', dust_mask', low_res_mask',
                    mask_history'>> = workers[i].before]_vars


\* the low-resolution pixels stamped by a point handler that moved the last
\* point of the active tool from last to last': the same stamps on a blank mask
StampedMask(low, last, lastNew, radius) ==
    LET blank == [w |-> low.w, h |-> low.h,
                  px |-> [i \in 1..(low.w * low.h) |-> 0]]
    IN IF lastNew = NoPoint
       THEN blank
       ELSE IF last = NoPoint
            THEN apply_circular_brush(blank, lastNew, radius, FALSE)
            ELSE interpolated_stroke(blank, last, lastNew, radius, FALSE)

\* the full-resolution pixel (x, y) is shown by a stamped low-resolution pixel
Covered(stamped, W, H, x, y) ==
    Pix(stamped, ((2 * x + 1) * stamped.w) \div (2 * W),
                 ((2 * y + 1) * stamped.h) \div (2 * H)) = 255

\* C23: a point of a stroke changes the full-resolution mask only at pixels
\* covered by the disks it stamps, and the release that ends the session
\* changes no pixel; so a session without an applied point leaves the mask as
\* it was.
C23_StrokeChangesOnlyStamped ==
    [][/\ (op' \in PointOps /\ tool_mode \in {"brush", "eraser"}
               /\ dust_mask # NoMask)
           => LET low == low_res_mask'
                  radius == Max(1, (brush_size * Min(low.w, low.h))
                                       \div Min(CanvasW, CanvasH))
                  stamped ==
                      IF tool_mode = "eraser"
                      THEN StampedMask(low, last_eraser_point,
                                       last_eraser_point', radius)
                      ELSE StampedMask(low, last_brush_point,
                                       last_brush_point', radius)
              IN \A x \in 0..(dust_mask.w - 1), y \in 0..(dust_mask.h - 1) :
                     ~Covered(stamped, dust_mask.w, dust_mask.h, x, y)
                         => Pix(dust_mask', x, y) = Pix(dust_mask, x, y)
       /\ op' = "on_canvas_release" => dust_mask' = dust_mask]_vars


\* C24: when both masks are set, the low-resolution mask is the nearest-
\* neighbour downscale of the full-resolution mask to the size
\* create_low_res_mask computes.
C24_LowResIsDownscale ==
    (dust_mask # NoMask /\ low_res_mask # NoMask)
        => LET max_dimension == Max(dust_mask.w, dust_mask.h)
           IN low_res_mask =
                  ResizeNearest(dust_mask,
                                LowResDim(dust_mask.w, max_dimension),
                                LowResDim(dust_mask.h, max_dimension))

\* an eraser point has just changed both masks
C24_Witness ==
    /\ op = "on_canvas_click"
    /\ tool_mode = "eraser"
    /\ last_eraser_point # NoPoint
    /\ dust_mask # NoMask
    /\ low_res_mask # NoMask
    /\ mask_history # << >>
    /\ dust_mask # mask_history[Len(mask_history)]


\* C25: loading an image sets the zoom scale to 1.0, the pan offset to (0, 0)
\* and the active tool to none.
C25_LoadResetsView ==
    [][op' = "load_image"
           => /\ zoom_scale' = Rat(1, 1)
              /\ drag_offset' = <<Rat(0, 1), Rat(0, 1)>>
              /\ tool_mode' = "none"]_vars


\* the distance of points p and q is at most num / den
GapAtMost(p, q, num, den) ==
    LET dxn == q.xn * p.xd - p.xn * q.xd
        dxd == q.xd * p.xd
        dyn == q.yn * p.yd - p.yn * q.yd
        dyd == q.yd * p.yd
    IN den * den * (dxn * dxn * dyd * dyd + dyn * dyn * dxd * dxd)
           <= num * num * dxd * dxd * dyd * dyd

\* the mask after a stamp at each centre of pts from the k-th on
RECURSIVE StampAll(_, _, _, _)
StampAll(mask, pts, radius, k) ==
    IF k > Len(pts)
    THEN mask
    ELSE StampAll(apply_circular_brush(mask, pts[k], radius, FALSE), pts,
                  radius, k + 1)


\* the distance of points p and q is less than num / den
GapLess(p, q, num, den) ==
    LET dxn == q.xn * p.xd - p.xn * q.xd
        dxd == q.xd * p.xd
        dyn == q.yn * p.yd - p.yn * q.yd
        dyd == q.yd * p.yd
    IN den * den * (dxn * dxn * dyd * dyd + dyn * dyn * dxd * dxd)
           < num * num * dxd * dxd * dyd * dyd

C27_SessionStartsWithoutLastPoint ==
    [][(op' = "on_canvas_click" /\ dust_mask # NoMask)
           => /\ tool_mode = "brush" => last_brush_point = NoPoint
              /\ tool_mode = "eraser" => last_eraser_point = NoPoint]_vars


\* C28: with the workers and the idle callbacks scheduled fairly, a detection
\* or removal that has set its in-flight flag eventually clears it.
C28_FlagsEventuallyCleared ==
    /\ is_detecting ~> ~is_detecting
    /\ is_removing ~> ~is_removing

\* a removal has failed in its worker and its flag is clear again
C28_Witness ==
    /\ op = "handle_processing_error"
    /\ error_message = "dust removal"
    /\ ~is_removing
    /\ workers = << >>


\* C29: when a detection completes, the undo history holds exactly one
\* snapshot, the mask just detected, and no stroke is active.
C29_DetectionResetsHistory ==
    [][op' = "completion_flag"
           => /\ dust_mask' # NoMask
              /\ mask_history' = <<dust_mask'>>
              /\ ~is_dragging']_vars


TiledCalls ==
    {workers[i] : i \in {j \in 1..Len(workers) :
                            workers[j].kind = "tiled" /\ workers[j].pc = "done"}}

\* the windows with an origin in starts that contain coordinate c of an axis
Covering(starts, c) == {s \in starts : s <= c /\ c < s + patch_size}

\* C30: in the tiled detection every pixel (y, x) of the image lies in at
\* least one window: its count, the number of window rows containing y times
\* the number of window columns containing x, is at least 1.
C30_EveryPixelInAWindow ==
    \A t \in TiledCalls :
        /\ \A y \in 0..(t.H - 1) : Cardinality(Covering(t.ys, y)) >= 1
        /\ \A x \in 0..(t.W - 1) : Cardinality(Covering(t.xs, x)) >= 1

=============================================================================
